---- MODULE Spec2Model ----
(***************************************************************************)
(* A model of pysas: ODF.setodf and download_data (odfcontrol.py),         *)
(* startsas.run (startsas.py) and initializesas (configutils.py).          *)
(*                                                                         *)
(* A path is the sequence of its components, "/" first when it is          *)
(* absolute: <<"/", "data", "0123", "ODF">> is /data/0123/ODF.  The file   *)
(* system is the set of the paths that exist.  An environment value is a   *)
(* sequence of tokens; the token ":" is os.pathsep.                        *)
(***************************************************************************)
EXTENDS Integers, Sequences, FiniteSets, TLC

VARIABLES
    fs,        \* the paths that exist
    content,   \* summary file -> the values of its PATH lines, in order
    cwd,       \* the working directory of the process
    environ,   \* os.environ: name -> value; an unset name is not in the domain
    pc,        \* the position in the running function
    outcome,   \* "running", "returned", or the class of the exception raised
    trace,     \* the external commands and removals executed, in order, each
               \* <<name, file name, exit code>>
    args,      \* the arguments of the call
    self,      \* the fields and locals the call assigns
    fs0,       \* fs when the call started
    environ0   \* environ when the call started

vars == <<fs, content, cwd, environ, pc, outcome, trace, args, self, fs0, environ0>>

-----------------------------------------------------------------------------
(* Values *)

None == <<"None">>

odfid == "0123"
root == <<"/">>
startdir == <<"/", "home">>

\* sas_cfg.get("sas", "data_dir"): the built-in default unless the user set it
sas_cfg_data_dir == <<"/", "does", "not", "exist">>

levelopts == {"ODF", "PPS", "ALL"}

-----------------------------------------------------------------------------
(* Paths and the file system *)

join(p, name) == Append(p, name)

IsPrefix(p, q) == Len(p) <= Len(q) /\ SubSeq(q, 1, Len(p)) = p

Parent(p) == SubSeq(p, 1, Len(p) - 1)

Basename(p) == p[Len(p)]

\* shutil.rmtree(p): p and everything below it
rmtree(F, p) == {q \in F : ~IsPrefix(p, q)}

\* the names that are regular files; every other name is a directory
FileNames ==
    {"ccf.cif", "old_ccf.cif", "R_SUM.SAS", "MANIFEST.1",
     "f.gpg", "f", "g.gpg", "g", "x.TAR", "m.gz", "m", "keyfile"}

IsFile(F, p) == p \in F /\ Basename(p) \in FileNames

IsDir(F, p) == p \in F /\ Basename(p) \notin FileNames

\* the files os.walk(d) visits: every regular file at or below d
WalkFiles(F, d) == {q \in F : IsPrefix(d, q) /\ q # d /\ IsFile(F, q)}

\* glob.glob(pattern) for a pattern without directory part, run in directory d
GlobIn(F, d, names) == {q \in F : Parent(q) = d /\ Basename(q) \in names}

\* glob.glob('**/' + pattern, recursive=True), run in directory d
GlobRec(F, d, names) == {q \in WalkFiles(F, d) : Basename(q) \in names}

\* 'ccf.cif' in file
ContainsCcfCif == {"ccf.cif", "old_ccf.cif"}

\* 'SUM.SAS' in file, and fnmatch '*SUM.SAS'
ContainsSumSas == {"R_SUM.SAS"}

\* fnmatch 'MANIFEST*'
MatchManifest == {"MANIFEST.1"}

-----------------------------------------------------------------------------
(* The environment *)

\* not os.environ.get(name)
Falsy(E, name) == name \notin DOMAIN E \/ E[name] = <<>>

\* os.environ[name] = value
SetEnv(E, name, value) == (name :> value) @@ E

EnvIs(E, name, value) == name \in DOMAIN E /\ E[name] = value

-----------------------------------------------------------------------------
(* Steps shared by every function *)

Raise(cls) ==
    /\ outcome' = cls
    /\ pc' = "done"

Return ==
    /\ outcome' = "returned"
    /\ pc' = "done"

Goto(label) ==
    /\ pc' = label
    /\ outcome' = outcome

\* an entry of trace: a step without a file or an exit code, and a command
Ev(name) == <<name, "", 0>>

Ran(name, file, rc) == <<name, file, rc>>

-----------------------------------------------------------------------------
(* ODF.setodf *)

obs_dir == join(self.data_dir, odfid)
odf_dir == join(obs_dir, "ODF")
pps_dir == join(obs_dir, "PPS")
work_dir == join(obs_dir, "work")

\* EnvMissing without the check of SAS_CCFPATH
EnvMissing_NoCcfpath(E) ==
    \/ Falsy(E, "LHEASOFT")
    \/ Falsy(E, "SAS_DIR")

\* one of LHEASOFT, SAS_DIR, SAS_CCFPATH is unset or empty
EnvMissing(E) ==
    \/ Falsy(E, "LHEASOFT")
    \/ Falsy(E, "SAS_DIR")
    \/ Falsy(E, "SAS_CCFPATH")

\* Checking LHEASOFT, SAS_DIR and SAS_CCFPATH
CheckEnv ==
    /\ pc = "setodf"
    /\ IF EnvMissing(environ) THEN Raise("Exception") ELSE Goto("data_dir")
    /\ UNCHANGED <<fs, content, cwd, environ, trace, args, self, fs0, environ0>>

\* self.data_dir as setodf resolves it from the argument
ResolveDataDir(data_dir, F, start) ==
    LET d1 == IF data_dir = None
              THEN IF sas_cfg_data_dir \in F THEN sas_cfg_data_dir ELSE start
              ELSE data_dir
    IN  IF d1[1] # "/" THEN start \o d1 ELSE d1

\* Where are we? ... os.chdir(self.data_dir)
SetDataDir ==
    /\ pc = "data_dir"
    /\ LET d == ResolveDataDir(args.data_dir, fs, cwd)
       IN  /\ self' = [self EXCEPT !.data_dir = d]
           /\ IF IsDir(fs, d)
              THEN /\ fs' = fs
                   /\ cwd' = d
                   /\ Goto("obs_dir")
              ELSE IF Parent(d) \in fs /\ d \notin fs
                   THEN /\ fs' = fs \cup {d}
                        /\ cwd' = d
                        /\ Goto("obs_dir")
                   ELSE /\ fs' = fs
                        /\ cwd' = cwd
                        /\ Raise("OSError")
    /\ UNCHANGED <<content, environ, trace, args, fs0, environ0>>

\* ReuseExisting that does not look at overwrite
ReuseExisting_Always(F, overwrite) == obs_dir \in F

\* ReuseExisting with the test of overwrite inverted
ReuseExisting_Inverted(F, overwrite) == obs_dir \in F /\ overwrite

\* if os.path.exists(obs_dir): reuse the data, or remove it when overwrite
ReuseExisting(F, overwrite) == obs_dir \in F /\ ~overwrite

CheckObsDir ==
    /\ pc = "obs_dir"
    /\ IF ReuseExisting(fs, args.overwrite)
       THEN /\ Goto("find_ccf")
            /\ UNCHANGED <<fs, content, trace>>
       ELSE IF obs_dir \in fs
            THEN /\ fs' = rmtree(fs, obs_dir)
                 /\ content' = [q \in DOMAIN content \cap fs' |-> content[q]]
                 /\ trace' = Append(trace, Ev("rmtree"))
                 /\ Goto("level")
            ELSE /\ Goto("level")
                 /\ UNCHANGED <<fs, content, trace>>
    /\ UNCHANGED <<cwd, environ, args, self, fs0, environ0>>

\* the match os.walk(obs_dir) visits last: a directory's own files come before
\* the files of its subdirectories, the files of one directory in any order
LastVisited(matches) ==
    {q \in matches :
        ~\E q2 \in matches : IsPrefix(Parent(q), q2) /\ Len(q2) > Len(q)}

\* the value self.sas_ccf / self.sas_odf holds after the search
Searched(given, F, names) ==
    IF given # None THEN {given}
    ELSE LET matches == {q \in WalkFiles(F, obs_dir) : Basename(q) \in names}
         IN  IF matches = {} THEN {None} ELSE LastVisited(matches)

\* Looking for ccf.cif file ... Set 'SAS_CCF' enviroment variable
FindCcf ==
    /\ pc = "find_ccf"
    /\ \E c \in Searched(self.sas_ccf, fs, ContainsCcfCif) :
        /\ self' = [self EXCEPT !.sas_ccf = c]
        /\ IF c = None
           THEN /\ Raise("TypeError")
                /\ environ' = environ
           ELSE /\ environ' = SetEnv(environ, "SAS_CCF", c)
                /\ Goto("find_odf")
    /\ UNCHANGED <<fs, content, cwd, trace, args, fs0, environ0>>

\* Looking for *SUM.SAS file
FindOdf ==
    /\ pc = "find_odf"
    /\ \E c \in Searched(self.sas_odf, fs, ContainsSumSas) :
        /\ self' = [self EXCEPT !.sas_odf = c]
        /\ Goto("summary")
    /\ UNCHANGED <<fs, content, cwd, environ, trace, args, fs0, environ0>>

\* the PATH values of a summary file
PathLines(p) == IF p \in DOMAIN content THEN content[p] ELSE <<>>

\* the check of one PATH value: "ok", or the exception it raises
PathCheck(F, path) ==
    IF path \notin F THEN "Exception"
    ELSE IF GlobIn(F, path, MatchManifest) = {} THEN "IndexError"
    ELSE "ok"

\* the first PATH line that fails decides
SummaryCheck(F, lines) ==
    LET bad == {i \in 1..Len(lines) : PathCheck(F, lines[i]) # "ok"}
    IN  IF bad = {} THEN "ok"
        ELSE PathCheck(F, lines[CHOOSE i \in bad : \A j \in bad : i <= j])

\* Check that the SUM.SAS file PATH keyword points to a real ODF directory,
\* set SAS_ODF, make work_dir, return
CheckSummary ==
    /\ pc = "summary"
    /\ IF self.sas_odf = None
       THEN /\ Raise("TypeError")
            /\ UNCHANGED <<fs, environ>>
       ELSE IF ~IsFile(fs, self.sas_odf)
       THEN /\ Raise("FileNotFoundError")
            /\ UNCHANGED <<fs, environ>>
       ELSE LET r == SummaryCheck(fs, PathLines(self.sas_odf))
            IN  IF r # "ok"
                THEN /\ Raise(r)
                     /\ UNCHANGED <<fs, environ>>
                ELSE /\ environ' = SetEnv(environ, "SAS_ODF", self.sas_odf)
                     /\ fs' = fs \cup {work_dir}
                     /\ Return
    /\ UNCHANGED <<content, cwd, trace, args, self, fs0, environ0>>

\* Identify the download level
CheckLevel ==
    /\ pc = "level"
    /\ IF args.level \notin levelopts THEN Raise("Exception") ELSE Goto("download")
    /\ UNCHANGED <<fs, content, cwd, environ, trace, args, self, fs0, environ0>>

-----------------------------------------------------------------------------
(* download_data *)

\* work_dir as download_data names it
dl_work_dir == join(obs_dir, "working")

\* the files a repository may deliver into a level's directory
Bundles ==
    {{}, {"MANIFEST.1"}, {"MANIFEST.1", "f.gpg"}, {"MANIFEST.1", "f.gpg", "g.gpg"},
     {"MANIFEST.1", "f.gpg", "f"}, {"x.TAR", "m.gz"}}

\* the files delivered into PPS beside an ODF bundle (level 'ALL')
PpsBundles == {{}, {"g.gpg"}}

\* the members of a *.TAR file
TarMembers == {"MANIFEST.1"}

GpgNames == {"f.gpg", "g.gpg"}
GzNames == {"m.gz"}
TarNames == {"x.TAR"}

\* file[:-4] of a *.gpg name, file[:-3] of a *.gz name
StripExt(n) ==
    CASE n = "f.gpg" -> "f"
      [] n = "g.gpg" -> "g"
      [] n = "m.gz" -> "m"

Put(dir, bundle) == {dir} \cup {join(dir, n) : n \in bundle}

Restrict(C, F) == [q \in DOMAIN C \cap F |-> C[q]]

\* Checks if obs_dir exists. Removes it. Creates obs_dir and work_dir
DownloadPrepare ==
    /\ pc = "download"
    /\ trace' = trace \o <<Ev("download_data")>>
                      \o (IF obs_dir \in fs THEN <<Ev("dl_rmtree")>> ELSE <<>>)
    /\ fs' = rmtree(fs, obs_dir) \cup {obs_dir, dl_work_dir}
    /\ content' = Restrict(content, fs')
    /\ Goto("fetch")
    /\ UNCHANGED <<cwd, environ, args, self, fs0, environ0>>

\* what a download of `level` leaves below the observation directory `obs`
Fetched(obs, level, b, bp) ==
    (IF level \in {"ODF", "ALL"} THEN Put(join(obs, "ODF"), b) ELSE {})
    \cup (IF level = "PPS" THEN Put(join(obs, "PPS"), b) ELSE {})
    \cup (IF level = "ALL" THEN Put(join(obs, "PPS"), bp) ELSE {})

\* level = ['ODF','PPS'] / level = [level]: the local variable level, a string
\* until then, becomes a list
AsList(level) == [list |-> TRUE, v |-> level.v]

\* repo == 'esa': astroquery download and untar, level by level, in obs_dir
FetchEsa ==
    /\ pc = "fetch"
    /\ args.repo = "esa"
    /\ cwd' = obs_dir
    /\ self' = [self EXCEPT !.level = AsList(self.level)]
    /\ trace' = Append(trace, Ev("fetch"))
    /\ \E ok \in BOOLEAN, b \in Bundles, bp \in PpsBundles :
        IF ok
        THEN /\ fs' = fs \cup Fetched(obs_dir, args.level, b, bp)
             /\ Goto("encrypted")
        ELSE /\ fs' = fs
             /\ Raise("DownloadError")
    /\ UNCHANGED <<content, environ, args, fs0, environ0>>

\* the directories the walk after wget removes
WalkRemoved(F, d, level) ==
    {q \in F : /\ IsPrefix(d, q) /\ q # d /\ IsDir(F, q)
               /\ \/ level = "ODF" /\ Basename(q) = "PPS"
                  \/ level = "PPS" /\ Basename(q) = "ODF"}

RmtreeAll(F, ds) == {q \in F : \A d \in ds : ~IsPrefix(d, q)}

\* repo == 'heasarc': wget mirrors <odfid>/<level> below the working
\* directory; its exit code is not looked at
FetchHeasarc ==
    /\ pc = "fetch"
    /\ args.repo = "heasarc"
    /\ trace' = Append(trace, Ev("fetch"))
    /\ \E ok \in BOOLEAN, b \in Bundles, bp \in PpsBundles :
        LET got == IF ok THEN fs \cup Fetched(join(cwd, odfid), args.level, b, bp)
                   ELSE fs
        IN  fs' = RmtreeAll(got, WalkRemoved(got, cwd, args.level))
    /\ content' = Restrict(content, fs')
    /\ Goto("encrypted")
    /\ UNCHANGED <<cwd, environ, args, self, fs0, environ0>>

\* repo == 'sciserver': copytree of the archive's directory
FetchSciserver ==
    /\ pc = "fetch"
    /\ args.repo = "sciserver"
    /\ trace' = Append(trace, Ev("fetch"))
    /\ \E ok \in BOOLEAN, b \in Bundles, bp \in PpsBundles :
        LET made == IF args.fn = "run" THEN {}
                    ELSE IF args.level = "ODF" THEN {odf_dir}
                    ELSE IF args.level = "PPS" THEN {pps_dir} ELSE {}
        IN  IF ok
            THEN /\ fs' = fs \cup made \cup Fetched(obs_dir, args.level, b, bp)
                 /\ Goto("encrypted")
            ELSE /\ fs' = fs \cup made
                 /\ Raise("FileNotFoundError")
    /\ UNCHANGED <<content, cwd, environ, args, self, fs0, environ0>>

\* the orders in which glob may list a set of files
Orders(S) ==
    {o \in [1..Cardinality(S) -> S] : \A i, j \in 1..Cardinality(S) : o[i] = o[j] => i = j}

\* the key text read from a key file (lines[0])
KeyText == <<"secret">>

\* download_data without a key reads self.data_dir, which a module-level
\* function does not have: NameError
KeyLookupFails(key) == key = None

\* the encryption key: the first line of the file when it names a file
ReadKey(F, key) == IF IsFile(F, key) THEN KeyText ELSE key

\* Check if data is encrypted ... Checks for encryption key or file with key
FindKey ==
    /\ pc = "encrypted"
    /\ args.fn = "setodf"
    /\ LET enc == GlobRec(fs, cwd, GpgNames)
       IN  IF enc = {}
           THEN /\ Goto("unpack")
                /\ self' = self
           ELSE IF KeyLookupFails(args.encryption_key)
           THEN /\ Raise("NameError")
                /\ self' = self
           ELSE /\ \E o \in Orders(enc) :
                     self' = [self EXCEPT !.encrypted = o, !.i = 1,
                                          !.encryption_key = ReadKey(fs, args.encryption_key)]
                /\ Goto("decrypt")
    /\ UNCHANGED <<fs, content, cwd, environ, trace, args, fs0, environ0>>

\* the exit codes of gpg
GpgCodes == {0, 2}

\* AlreadyDecrypted that never finds the decrypted file
AlreadyDecrypted_Never(F, out_file) == FALSE

\* if os.path.exists(out_file)
AlreadyDecrypted(F, out_file) == out_file \in F

\* one round of: for file in encrypted
DecryptOne ==
    /\ pc = "decrypt"
    /\ LET file == self.encrypted[self.i]
           out_file == join(Parent(file), StripExt(Basename(file)))
           next == IF self.i < Len(self.encrypted) THEN "decrypt" ELSE "unpack"
       IN  IF AlreadyDecrypted(fs, out_file)
           THEN /\ Goto(next)
                /\ UNCHANGED <<fs, trace>>
           ELSE \E rc \in GpgCodes :
                /\ trace' = Append(trace, Ran("gpg", Basename(file), rc))
                /\ IF rc # 0
                   THEN /\ Raise("Exception")
                        /\ fs' = fs
                   ELSE /\ fs' = (fs \ {file}) \cup {out_file}
                        /\ Goto(next)
    /\ self' = [self EXCEPT !.i = self.i + 1]
    /\ UNCHANGED <<content, cwd, environ, args, fs0, environ0>>

\* gunzip every *.gz below the working directory
Gunzipped(F, d) ==
    LET gz == GlobRec(F, d, GzNames)
    IN  (F \ gz) \cup {join(Parent(q), StripExt(Basename(q))) : q \in gz}

\* extract every *.TAR below the working directory into odf_dir
Untarred(F, d) ==
    LET tars == GlobRec(F, d, TarNames)
    IN  IF tars = {} THEN F ELSE (F \ tars) \cup Put(odf_dir, TarMembers)

\* the two unpacking loops that end download_data
Unpack ==
    /\ pc = "unpack"
    /\ fs' = Untarred(Gunzipped(fs, cwd), cwd)
    /\ trace' = Append(trace, Ev("unpacked"))
    /\ Goto("downloaded")
    /\ UNCHANGED <<content, cwd, environ, args, self, fs0, environ0>>

-----------------------------------------------------------------------------
(* ODF.setodf after download_data: cifbuild and odfingest *)

\* OnlyPps comparing with the directory's name instead of the level's
OnlyPps_Lower(level) == level = "pps"

\* If only PPS files were requested then setodf stops here
OnlyPps(level) == level = "PPS"

\* ... Else: chdir to odf_dir, MANIFEST, SAS_ODF = odf_dir, chdir to work_dir
AfterDownload ==
    /\ pc = "downloaded"
    /\ args.fn = "setodf"
    /\ IF OnlyPps(args.level)
       THEN /\ Return
            /\ UNCHANGED <<fs, cwd, environ>>
       ELSE IF odf_dir \notin fs
       THEN /\ Raise("FileNotFoundError")
            /\ UNCHANGED <<fs, cwd, environ>>
       ELSE IF GlobIn(fs, odf_dir, MatchManifest) = {}
       THEN /\ Raise("IndexError")
            /\ cwd' = odf_dir
            /\ UNCHANGED <<fs, environ>>
       ELSE /\ environ' = SetEnv(environ, "SAS_ODF", odf_dir)
            /\ fs' = fs \cup {work_dir}
            /\ cwd' = work_dir
            /\ Goto("cifbuild")
    /\ UNCHANGED <<content, trace, args, self, fs0, environ0>>

\* the exit codes of cifbuild and odfingest
ExitCodes == {0, 1}

\* Failed taking only a negative code (a signal) for a failure
Failed_Negative(rc) == rc < 0

\* Failed that takes every exit code for success
Failed_Never(rc) == FALSE

\* rc.returncode != 0
Failed(rc) == rc # 0

\* Run cifbuild
RunCifbuild ==
    /\ pc = "cifbuild"
    /\ \E rc \in ExitCodes, made \in BOOLEAN :
        /\ trace' = Append(trace, Ran("cifbuild", "", rc))
        /\ fs' = IF made THEN fs \cup {join(cwd, "ccf.cif")} ELSE fs
        /\ IF Failed(rc) THEN Raise("Exception") ELSE Goto("ccf_check")
    /\ UNCHANGED <<content, cwd, environ, args, self, fs0, environ0>>

\* what the check of a produced file ends with when glob found `found`:
\* found[0] of an empty list is an IndexError, which except FileExistsError
\* does not catch
ProducedCheck(found) == IF found = {} THEN "IndexError" ELSE "ok"

\* working_dir of startsas.run
working_dir == join(obs_dir, "working")

\* the directory cifbuild and odfingest run in: work_dir in setodf,
\* working_dir in startsas.run
chain_dir == IF args.fn = "run" THEN working_dir ELSE work_dir

\* Check whether ccf.cif is produced or not. Sets SAS_CCF variable
CheckCcf ==
    /\ pc = "ccf_check"
    /\ LET r == ProducedCheck(GlobIn(fs, cwd, {"ccf.cif"}))
       IN  IF r # "ok"
           THEN /\ Raise(r)
                /\ environ' = environ
           ELSE /\ environ' = SetEnv(environ, "SAS_CCF", join(chain_dir, "ccf.cif"))
                /\ Goto("odfingest")
    /\ UNCHANGED <<fs, content, cwd, trace, args, self, fs0, environ0>>

\* a directory that is not odf_dir
elsewhere == <<"/", "elsewhere">>

\* the PATH lines odfingest may write into the summary file
SummaryPaths == {<<>>, <<odf_dir>>, <<elsewhere>>, <<odf_dir, elsewhere>>}

\* startsas.run with odfingest_opts prints odfiingest_opts, a name that is
\* not defined
OptsNameError == args.fn = "run" /\ args.odfingest_opts

\* Now run odfingest
RunOdfingest ==
    /\ pc = "odfingest"
    /\ IF OptsNameError
       THEN /\ Raise("NameError")
            /\ UNCHANGED <<fs, content, trace>>
       ELSE \E rc \in ExitCodes, made \in BOOLEAN, lines \in SummaryPaths :
            /\ trace' = Append(trace, Ran("odfingest", "", rc))
            /\ fs' = IF made THEN fs \cup {join(cwd, "R_SUM.SAS")} ELSE fs
            /\ content' = IF made THEN (join(cwd, "R_SUM.SAS") :> lines) @@ content
                          ELSE content
            /\ IF Failed(rc) THEN Raise("Exception") ELSE Goto("sum_check")
    /\ UNCHANGED <<cwd, environ, args, self, fs0, environ0>>

\* PathMatches that looks at the first PATH line only
PathMatches_First(lines) == Len(lines) = 0 \/ lines[1] = odf_dir

\* the PATH lines all name odf_dir
PathMatches(lines) == \A i \in 1..Len(lines) : lines[i] = odf_dir

\* Check whether the SUM.SAS has been produced or not, set the SAS_ODF to the
\* SUM.SAS file, check that the SUM.SAS file has the right PATH keyword
CheckSumSas ==
    /\ pc = "sum_check"
    /\ LET found == GlobIn(fs, cwd, ContainsSumSas)
           r == ProducedCheck(found)
       IN  IF r # "ok"
           THEN /\ Raise(r)
                /\ environ' = environ
           ELSE \E s \in found :
                LET fullsumsas == join(chain_dir, Basename(s))
                IN  /\ environ' = SetEnv(environ, "SAS_ODF", fullsumsas)
                    /\ IF PathMatches(PathLines(fullsumsas))
                       THEN Return
                       ELSE Raise("Exception")
    /\ UNCHANGED <<fs, content, cwd, trace, args, self, fs0, environ0>>

-----------------------------------------------------------------------------
(* The calls of ODF.setodf that are explored *)

data == <<"/", "data">>
obs0 == join(data, odfid)
keyfile == <<"/", "home", "keyfile">>

Base == {root, startdir, keyfile}

\* an observation directory as a complete setodf leaves it
FullObs ==
    Put(obs0, {}) \cup Put(join(obs0, "ODF"), {"MANIFEST.1"})
    \cup Put(join(obs0, "work"), {"ccf.cif", "R_SUM.SAS"})

\* the file systems a call may start from, each with its summary files
InitFs ==
    { [fs |-> Base, content |-> <<>>],
      [fs |-> Base \cup {data, join(data, "0999"), <<"/", "data", "0999", "PPS">>},
       content |-> <<>>],
      [fs |-> Base \cup {data, obs0}, content |-> <<>>],
      [fs |-> Base \cup {data} \cup FullObs,
       content |-> (<<"/", "data", "0123", "work", "R_SUM.SAS">>
                        :> << <<"/", "data", "0123", "ODF">> >>)],
      [fs |-> Base \cup {data, obs0, join(obs0, "ccf.cif"), join(obs0, "R_SUM.SAS")}
                   \cup Put(join(obs0, "ODF"), {"old_ccf.cif"}),
       content |-> (<<"/", "data", "0123", "R_SUM.SAS">> :> << elsewhere >>)],
      [fs |-> Base \cup {data, obs0} \cup Put(join(obs0, "ODF"), {"MANIFEST.1"})
                   \cup Put(join(obs0, "working"), {"ccf.cif", "R_SUM.SAS"}),
       content |-> (<<"/", "data", "0123", "working", "R_SUM.SAS">>
                        :> << <<"/", "data", "0123", "ODF">> >>)],
      [fs |-> Base \cup {data, obs0, join(obs0, "ODF"), join(obs0, "ccf.cif"),
                         join(obs0, "R_SUM.SAS")},
       content |-> (<<"/", "data", "0123", "R_SUM.SAS">>
                        :> << <<"/", "data", "0123", "ODF">> >>)] }

set == <<"set">>
prev == <<"prev">>

\* LHEASOFT, SAS_DIR and SAS_CCFPATH set, SAS_CCF and SAS_ODF unset or left
\* over from an earlier session
ReadyEnv ==
    { [LHEASOFT |-> set, SAS_DIR |-> set, SAS_CCFPATH |-> set],
      [LHEASOFT |-> set, SAS_DIR |-> set, SAS_CCFPATH |-> set,
       SAS_CCF |-> prev, SAS_ODF |-> prev] }

\* one of the three unset or empty
LackingEnv ==
    { [SAS_DIR |-> set, SAS_CCFPATH |-> set, SAS_CCF |-> prev],
      [LHEASOFT |-> <<>>, SAS_DIR |-> set, SAS_CCFPATH |-> set],
      [LHEASOFT |-> set, SAS_CCFPATH |-> set],
      [LHEASOFT |-> set, SAS_DIR |-> <<>>, SAS_CCFPATH |-> set, SAS_ODF |-> prev],
      [LHEASOFT |-> set, SAS_DIR |-> set],
      [LHEASOFT |-> set, SAS_DIR |-> set, SAS_CCFPATH |-> <<>>],
      [SAS_CCF |-> prev, SAS_ODF |-> prev] }

SetodfArgs ==
    { a \in [fn : {"setodf"},
             level : {"ODF", "PPS", "ALL", "XYZ"},
             overwrite : BOOLEAN,
             repo : {"esa", "heasarc", "sciserver"},
             data_dir : {None, data},
             sas_ccf : {None, <<"/", "data", "0123", "work", "ccf.cif">>},
             sas_odf : {None, <<"/", "data", "0123", "work", "R_SUM.SAS">>},
             encryption_key : {None, <<"k3y">>, keyfile}] :
        \* the paths to existing products are given with the other options
        \* at their defaults
        (a.sas_ccf # None \/ a.sas_odf # None)
            => a.level = "ODF" /\ a.repo = "esa" /\ a.encryption_key = None
               /\ a.data_dir = data }

Init ==
    /\ \E f \in InitFs : fs = f.fs /\ content = f.content
    /\ cwd = startdir
    /\ environ \in ReadyEnv \cup LackingEnv
    /\ args \in SetodfArgs
    /\ self = [data_dir |-> args.data_dir, sas_ccf |-> args.sas_ccf,
               sas_odf |-> args.sas_odf, encrypted |-> <<>>, i |-> 0,
               encryption_key |-> args.encryption_key,
               level |-> [list |-> FALSE, v |-> args.level]]
    /\ pc = "setodf"
    /\ outcome = "running"
    /\ trace = <<>>
    /\ fs0 = fs
    /\ environ0 = environ

Next ==
    \/ CheckEnv
    \/ SetDataDir
    \/ CheckObsDir
    \/ FindCcf
    \/ FindOdf
    \/ CheckSummary
    \/ CheckLevel
    \/ DownloadPrepare
    \/ FetchEsa
    \/ FetchHeasarc
    \/ FetchSciserver
    \/ FindKey
    \/ DecryptOne
    \/ Unpack
    \/ AfterDownload
    \/ RunCifbuild
    \/ CheckCcf
    \/ RunOdfingest
    \/ CheckSumSas

Spec == Init /\ [][Next]_vars

-----------------------------------------------------------------------------
(* startsas.run *)

\* not x, for an optional string argument
Not(x) == x = None \/ x = <<>>

\* Check if inputs are compatable: "ok" or the exception raised
ArgsCheck(a) ==
    IF Not(a.odfid) /\ ~a.sasfiles THEN "Exception"
    ELSE IF ~Not(a.odfid) /\ (~Not(a.sas_ccf) \/ ~Not(a.sas_odf)) THEN "Exception"
    ELSE IF a.sasfiles /\ Not(a.sas_ccf) /\ Not(a.sas_odf) THEN "Exception"
    ELSE "ok"

RunCheckArgs ==
    /\ pc = "run"
    /\ IF ArgsCheck(args) # "ok" THEN Raise("Exception") ELSE Goto("run_env")
    /\ UNCHANGED <<fs, content, cwd, environ, trace, args, self, fs0, environ0>>

\* Checking LHEASOFT, SAS_DIR and SAS_CCFPATH
RunCheckEnv ==
    /\ pc = "run_env"
    /\ IF EnvMissing(environ) THEN Raise("Exception") ELSE Goto("run_workdir")
    /\ UNCHANGED <<fs, content, cwd, environ, trace, args, self, fs0, environ0>>

pwd == <<"pwd">>

\* Where are we? ... datadir, created and entered unless workdir is 'pwd'
RunWorkdir ==
    /\ pc = "run_workdir"
    /\ IF args.workdir = pwd
       THEN /\ self' = [self EXCEPT !.data_dir = cwd]
            /\ Goto("run_level")
            /\ UNCHANGED <<fs, cwd>>
       ELSE LET d == IF args.workdir[1] # "/" THEN cwd \o args.workdir
                     ELSE args.workdir
            IN  /\ self' = [self EXCEPT !.data_dir = d]
                /\ IF IsDir(fs, d)
                   THEN /\ fs' = fs
                        /\ cwd' = d
                        /\ Goto("run_level")
                   ELSE IF Parent(d) \in fs /\ d \notin fs
                        THEN /\ fs' = fs \cup {d}
                             /\ cwd' = d
                             /\ Goto("run_level")
                        ELSE /\ fs' = fs
                             /\ cwd' = cwd
                             /\ Raise("OSError")
    /\ UNCHANGED <<content, environ, trace, args, fs0, environ0>>

\* Identify the download level
RunCheckLevel ==
    /\ pc = "run_level"
    /\ IF args.level \notin levelopts THEN Raise("Exception") ELSE Goto("run_dirs")
    /\ UNCHANGED <<fs, content, cwd, environ, trace, args, self, fs0, environ0>>

\* Set directories for the observation, odf, and working: os.path.join of
\* datadir and an odfid that is None is a TypeError
RunDirs ==
    /\ pc = "run_dirs"
    /\ IF args.odfid = None THEN Raise("TypeError")
       ELSE IF ~Not(args.odfid) THEN Goto("run_obs_dir")
       ELSE Goto("run_sasfiles")
    /\ UNCHANGED <<fs, content, cwd, environ, trace, args, self, fs0, environ0>>

\* RefuseOverwrite without the test for an existing directory's overwrite
RefuseOverwrite_Never(F, overwrite) == FALSE

\* if os.path.exists(obs_dir): ... else (overwrite is False): raise
RefuseOverwrite(F, overwrite) == obs_dir \in F /\ ~overwrite

\* Checks if obs_dir exists. Removes it if overwrite = True, raises if not.
\* Creates obs_dir and working_dir
RunObsDir ==
    /\ pc = "run_obs_dir"
    /\ IF RefuseOverwrite(fs, args.overwrite)
       THEN /\ Raise("Exception")
            /\ UNCHANGED <<fs, content, trace>>
       ELSE /\ fs' = rmtree(fs, obs_dir) \cup {obs_dir, working_dir}
            /\ content' = Restrict(content, fs')
            /\ trace' = IF obs_dir \in fs THEN Append(trace, Ev("rmtree")) ELSE trace
            /\ Goto("fetch")
    /\ UNCHANGED <<cwd, environ, args, self, fs0, environ0>>

\* the names that contain the odfid, and those that contain 'key'
ContainsOdfid == {odfid}
ContainsKey == {"keyfile"}

\* encryption_file as run finds it below datadir when no key is given
KeyFileMatches(F, datadir) ==
    LET byid == GlobIn(F, datadir, ContainsOdfid)
    IN  IF byid = {} THEN GlobIn(F, datadir, ContainsKey) ELSE byid

\* the search for a key file ends in an exception: several matches, none,
\* or a match that is no regular file; a single regular file is then opened
\* as a list, a TypeError
KeySearch(F, datadir) ==
    LET m == KeyFileMatches(F, datadir)
    IN  IF Cardinality(m) > 1 THEN "Exception"
        ELSE IF m = {} THEN "Exception"
        ELSE IF \E q \in m : ~IsFile(F, q) THEN "Exception"
        ELSE "TypeError"

\* Check if data is encrypted ... Checks for encryption key or file with key
RunFindKey ==
    /\ pc = "encrypted"
    /\ args.fn = "run"
    /\ LET enc == GlobRec(fs, cwd, GpgNames)
       IN  IF enc = {}
           THEN /\ Goto("unpack")
                /\ self' = self
           ELSE IF args.encryption_key = None
           THEN /\ Raise(KeySearch(fs, self.data_dir))
                /\ self' = self
           ELSE /\ \E o \in Orders(enc) :
                     self' = [self EXCEPT !.encrypted = o, !.i = 1,
                                          !.encryption_key = ReadKey(fs, args.encryption_key)]
                /\ Goto("decrypt")
    /\ UNCHANGED <<fs, content, cwd, environ, trace, args, fs0, environ0>>

\* level == 'PPS', of the local variable level
LevelIsPps(level) == ~level.list /\ level.v = "PPS"

\* if level == 'PPS': report; else chdir to odf_dir, MANIFEST, SAS_ODF,
\* chdir to working_dir
RunAfterDownload ==
    /\ pc = "downloaded"
    /\ args.fn = "run"
    /\ IF LevelIsPps(self.level)
       THEN /\ Return
            /\ UNCHANGED <<cwd, environ>>
       ELSE IF odf_dir \notin fs
       THEN /\ Raise("FileNotFoundError")
            /\ UNCHANGED <<cwd, environ>>
       ELSE IF GlobIn(fs, odf_dir, MatchManifest) = {}
       THEN /\ Raise("IndexError")
            /\ cwd' = odf_dir
            /\ UNCHANGED <<environ>>
       ELSE /\ environ' = SetEnv(environ, "SAS_ODF", odf_dir)
            /\ cwd' = working_dir
            /\ Goto("cifbuild")
    /\ UNCHANGED <<fs, content, trace, args, self, fs0, environ0>>

\* the checks of sas_ccf and sas_odf before SAS_CCF is set: "ok" or the
\* exception raised (x[0] of None is a TypeError, of '' an IndexError)
AbsoluteCheck(x) ==
    IF x = None THEN "TypeError"
    ELSE IF x = <<>> THEN "IndexError"
    ELSE IF x[1] # "/" THEN "Exception"
    ELSE "ok"

\* elif sasfiles: SAS_CCF and SAS_ODF from the given files
RunSasfiles ==
    /\ pc = "run_sasfiles"
    /\ LET c == AbsoluteCheck(args.sas_ccf)
           o == AbsoluteCheck(args.sas_odf)
       IN  IF c # "ok"
           THEN /\ Raise(c)
                /\ environ' = environ
           ELSE IF o # "ok"
           THEN /\ Raise(o)
                /\ environ' = environ
           ELSE IF Basename(args.sas_odf) \notin ContainsSumSas
           THEN /\ Raise("Exception")
                /\ environ' = SetEnv(environ, "SAS_CCF", args.sas_ccf)
           ELSE IF ~IsFile(fs, args.sas_odf)
           THEN /\ Raise("FileNotFoundError")
                /\ environ' = SetEnv(environ, "SAS_CCF", args.sas_ccf)
           ELSE LET r == SummaryCheck(fs, PathLines(args.sas_odf))
                IN  IF r # "ok"
                    THEN /\ Raise(r)
                         /\ environ' = SetEnv(environ, "SAS_CCF", args.sas_ccf)
                    ELSE /\ environ' = SetEnv(SetEnv(environ, "SAS_CCF", args.sas_ccf),
                                              "SAS_ODF", args.sas_odf)
                         /\ Return
    /\ UNCHANGED <<fs, content, cwd, trace, args, self, fs0, environ0>>

\* the calls of startsas.run that are explored
RunArgs ==
    { a \in [fn : {"run"},
             odfid : {None, <<>>, <<odfid>>},
             workdir : {pwd, data, <<"sub">>},
             level : {"ODF", "PPS", "ALL", "XYZ"},
             sasfiles : BOOLEAN,
             sas_ccf : {None, <<"/", "data", "0123", "work", "ccf.cif">>},
             sas_odf : {None, <<"/", "data", "0123", "work", "R_SUM.SAS">>,
                        <<"/", "data", "0123", "R_SUM.SAS">>},
             odfingest_opts : BOOLEAN,
             encryption_key : {None, <<"k3y">>, keyfile},
             overwrite : BOOLEAN,
             repo : {"esa", "heasarc", "sciserver"}] :
        \* the arguments that select the files of an earlier session, and a
        \* relative workdir, are given with the other options at their defaults
        (\/ a.odfid # <<odfid>> \/ a.sasfiles \/ a.sas_ccf # None
         \/ a.sas_odf # None \/ a.workdir = <<"sub">>)
            => /\ a.level = "ODF" /\ a.repo = "esa" /\ a.encryption_key = None
               /\ ~a.odfingest_opts /\ ~a.overwrite }

InitRun ==
    /\ \E f \in InitFs : fs = f.fs /\ content = f.content
    /\ cwd = startdir
    /\ environ \in ReadyEnv \cup LackingEnv
    /\ args \in RunArgs
    /\ self = [data_dir |-> None, sas_ccf |-> args.sas_ccf,
               sas_odf |-> args.sas_odf, encrypted |-> <<>>, i |-> 0,
               encryption_key |-> args.encryption_key,
               level |-> [list |-> FALSE, v |-> args.level]]
    /\ pc = "run"
    /\ outcome = "running"
    /\ trace = <<>>
    /\ fs0 = fs
    /\ environ0 = environ

NextRun ==
    \/ RunCheckArgs
    \/ RunCheckEnv
    \/ RunWorkdir
    \/ RunCheckLevel
    \/ RunDirs
    \/ RunObsDir
    \/ RunSasfiles
    \/ FetchEsa
    \/ FetchHeasarc
    \/ FetchSciserver
    \/ RunFindKey
    \/ DecryptOne
    \/ Unpack
    \/ RunAfterDownload
    \/ RunCifbuild
    \/ CheckCcf
    \/ RunOdfingest
    \/ CheckSumSas

SpecRun == InitRun /\ [][NextRun]_vars

-----------------------------------------------------------------------------
(* Properties of ODF.setodf *)

Names(t) == {t[i][1] : i \in 1..Len(t)}

Count(t, name) == Cardinality({i \in 1..Len(t) : t[i][1] = name})

Before(t, a, b) == \E i, j \in 1..Len(t) : i < j /\ t[i][1] = a /\ t[j][1] = b

\* the exit code the command `name` ended with was not 0
RanFailing(t, name) == \E i \in 1..Len(t) : t[i][1] = name /\ t[i][3] # 0

Unchanged(name) ==
    /\ name \in DOMAIN environ <=> name \in DOMAIN environ0
    /\ name \in DOMAIN environ => environ[name] = environ0[name]

\* data_dir/odfid as the call will resolve it
called_obs_dir == join(ResolveDataDir(args.data_dir, fs0, startdir), odfid)

ExistedAtCall == called_obs_dir \in fs0

\* at the call, one of the three variables was unset or empty
MissingAtCall ==
    \E v \in {"LHEASOFT", "SAS_DIR", "SAS_CCFPATH"} :
        v \notin DOMAIN environ0 \/ environ0[v] = <<>>

Ready == ~MissingAtCall /\ args.level \in {"ODF", "PPS", "ALL"}

IsSetodf == args.fn = "setodf"

\* C1: with the three variables set and a valid level, setodf invokes
\* download_data exactly when data_dir/odfid did not exist at the call or
\* overwrite=True; it invokes it once, and for a directory that existed only
\* after removing it.
C1_DownloadIffMissingOrOverwrite ==
    (IsSetodf /\ Ready) =>
        /\ Count(trace, "download_data") <= 1
        /\ "download_data" \in Names(trace) => (~ExistedAtCall \/ args.overwrite)
        /\ (pc = "done" /\ (~ExistedAtCall \/ args.overwrite))
               => "download_data" \in Names(trace)
        /\ ("download_data" \in Names(trace) /\ ExistedAtCall)
               => Before(trace, "rmtree", "download_data")
        /\ pc = "download" => obs_dir \notin fs

C1_Witness ==
    /\ IsSetodf /\ Ready /\ pc = "done" /\ outcome = "returned"
    /\ ExistedAtCall /\ args.overwrite
    /\ Count(trace, "download_data") = 1

\* C2: with overwrite=False and data_dir/odfid existing, setodf runs neither
\* the removal, nor download_data, nor cifbuild, nor odfingest, and changes
\* the file system at most by creating data_dir/odfid/work.
C2_NoOverwriteKeepsData ==
    (IsSetodf /\ ~args.overwrite /\ ExistedAtCall) =>
        /\ Names(trace) \cap {"rmtree", "dl_rmtree", "download_data", "fetch",
                              "cifbuild", "odfingest"} = {}
        /\ fs0 \subseteq fs
        /\ fs \ fs0 \subseteq {join(called_obs_dir, "work")}

C2_Witness ==
    /\ IsSetodf /\ ~args.overwrite /\ ExistedAtCall
    /\ pc = "done" /\ outcome = "returned"
    /\ fs = fs0 \cup {join(called_obs_dir, "work")} /\ fs # fs0

\* C3: in the fresh-download path (level 'ODF' or 'ALL') a non-zero exit code
\* ends the call with an Exception before any later step: after a failing
\* cifbuild, odfingest is not run and SAS_CCF is not set; after a failing
\* odfingest, SAS_ODF is not set to a summary file.
C3_NonZeroExitAborts ==
    IsSetodf =>
        /\ RanFailing(trace, "cifbuild") =>
               /\ pc = "done" /\ outcome = "Exception"
               /\ "odfingest" \notin Names(trace)
               /\ Unchanged("SAS_CCF")
        /\ RanFailing(trace, "odfingest") =>
               /\ pc = "done" /\ outcome = "Exception"
               /\ EnvIs(environ, "SAS_ODF", odf_dir)

C3_Witness ==
    /\ IsSetodf /\ args.level \in {"ODF", "ALL"}
    /\ RanFailing(trace, "odfingest")
    /\ GlobIn(fs, work_dir, ContainsSumSas) # {}

\* C4 (as claimed): when cifbuild (odfingest) exited with 0 and ccf.cif (a
\* *SUM.SAS file) is absent from the work directory, setodf ends with
\* sys.exit(1), leaving SAS_CCF (SAS_ODF) as it was.
C4_MissingOutputExits ==
    (IsSetodf /\ pc = "done" /\ Len(trace) > 0) =>
        /\ (/\ trace[Len(trace)] = Ran("cifbuild", "", 0)
            /\ GlobIn(fs, work_dir, {"ccf.cif"}) = {})
               => outcome = "SystemExit" /\ Unchanged("SAS_CCF")
        /\ (/\ trace[Len(trace)] = Ran("odfingest", "", 0)
            /\ GlobIn(fs, work_dir, ContainsSumSas) = {})
               => outcome = "SystemExit" /\ EnvIs(environ, "SAS_ODF", odf_dir)

FreshReturn ==
    /\ IsSetodf /\ pc = "done" /\ outcome = "returned"
    /\ "download_data" \in Names(trace)

\* C5: when setodf returns after a fresh download with level 'ODF' or 'ALL',
\* SAS_CCF is data_dir/odfid/work/ccf.cif, SAS_ODF is a *SUM.SAS file in
\* data_dir/odfid/work, and every PATH line of that file names
\* data_dir/odfid/ODF.
C5_ReturnSetsProducts ==
    (FreshReturn /\ args.level \in {"ODF", "ALL"}) =>
        /\ EnvIs(environ, "SAS_CCF", join(work_dir, "ccf.cif"))
        /\ "SAS_ODF" \in DOMAIN environ
        /\ environ["SAS_ODF"] \in GlobIn(fs, work_dir, ContainsSumSas)
        /\ \A i \in 1..Len(PathLines(environ["SAS_ODF"])) :
               PathLines(environ["SAS_ODF"])[i] = odf_dir

C5_Witness ==
    /\ FreshReturn /\ args.level = "ALL"
    /\ "SAS_ODF" \in DOMAIN environ
    /\ Len(PathLines(environ["SAS_ODF"])) = 1

\* the directories named work or working below the observation directory
WorkDirs == {q \in fs : Parent(q) = obs_dir /\ Basename(q) \in {"work", "working"}}

\* C6 (as claimed): after a fresh download the work directory download_data
\* made is the data_dir/odfid/work in which cifbuild and odfingest ran: the
\* observation directory holds one work directory.
C6_OneWorkDirectory ==
    (FreshReturn /\ args.level \in {"ODF", "ALL"}) => WorkDirs = {work_dir}

\* C7: with LHEASOFT, SAS_DIR or SAS_CCFPATH unset or empty, setodf raises an
\* Exception before it changes the working directory, the file system or
\* the environment, and before it runs anything.
C7_MissingEnvRaisesFirst ==
    (IsSetodf /\ MissingAtCall) =>
        /\ pc \in {"setodf", "done"}
        /\ pc = "done" => outcome = "Exception"
        /\ cwd = startdir /\ fs = fs0 /\ environ = environ0 /\ trace = <<>>

C7_Witness ==
    /\ IsSetodf /\ pc = "done" /\ outcome = "Exception"
    /\ ~Falsy(environ0, "LHEASOFT") /\ ~Falsy(environ0, "SAS_DIR")
    /\ Falsy(environ0, "SAS_CCFPATH")

\* C8: with level='PPS', setodf returns once download_data has returned,
\* runs neither cifbuild nor odfingest and leaves SAS_CCF and SAS_ODF alone.
C8_PpsStopsAfterDownload ==
    (IsSetodf /\ args.level = "PPS" /\ "download_data" \in Names(trace)) =>
        /\ Names(trace) \cap {"cifbuild", "odfingest"} = {}
        /\ Unchanged("SAS_CCF") /\ Unchanged("SAS_ODF")
        /\ pc \notin {"cifbuild", "ccf_check", "odfingest", "sum_check"}
        /\ ("unpacked" \in Names(trace) /\ pc = "done") => outcome = "returned"

C8_Witness ==
    /\ IsSetodf /\ args.level = "PPS" /\ pc = "done" /\ outcome = "returned"
    /\ "unpacked" \in Names(trace)
    /\ "SAS_CCF" \in DOMAIN environ

\* the positions of the entries called name in t
At(t, name) == {i \in 1..Len(t) : t[i][1] = name}

\* setodf is about to start odfingest, or has started it
OdfingestStarts == IsSetodf /\ (pc = "odfingest" \/ "odfingest" \in Names(trace))

\* download_data returned, then cifbuild ran once and exited with 0, all
\* before odfingest
ChainInOrder(t) ==
    /\ Count(t, "cifbuild") = 1
    /\ ~RanFailing(t, "cifbuild")
    /\ \A c \in At(t, "cifbuild") :
        /\ \E u \in At(t, "unpacked") : u < c
        /\ \A d \in At(t, "download_data") \cup At(t, "fetch") \cup At(t, "unpacked") :
               d < c
        /\ \A o \in At(t, "odfingest") : c < o

\* C17: in every execution of setodf that invokes odfingest, download_data
\* returned before cifbuild was started, cifbuild was invoked earlier in the
\* same call and exited with 0, and when odfingest starts SAS_ODF is
\* data_dir/odfid/ODF and SAS_CCF is data_dir/odfid/work/ccf.cif.
C17_ChainOrder ==
    OdfingestStarts =>
        /\ ChainInOrder(trace)
        /\ pc = "odfingest" =>
               /\ EnvIs(environ, "SAS_ODF", odf_dir)
               /\ EnvIs(environ, "SAS_CCF", join(work_dir, "ccf.cif"))

\* odfingest was invoked after a download that had files to decrypt
C17_Witness ==
    /\ IsSetodf
    /\ "odfingest" \in Names(trace)
    /\ "gpg" \in Names(trace)

-----------------------------------------------------------------------------
(* Properties of startsas.run *)

IsRun == args.fn = "run"

\* C9 (as claimed): startsas.run with level='PPS' runs neither cifbuild nor
\* odfingest, whatever the repo, and once the data is downloaded and
\* unpacked it returns normally.
C9_RunPpsReturns ==
    (IsRun /\ args.level = "PPS") =>
        /\ Names(trace) \cap {"cifbuild", "odfingest"} = {}
        /\ ("unpacked" \in Names(trace) /\ pc = "done") => outcome = "returned"

\* datadir as run resolves workdir when called in startdir
called_datadir ==
    IF args.workdir = pwd THEN startdir
    ELSE IF args.workdir[1] # "/" THEN startdir \o args.workdir
    ELSE args.workdir

\* run was called with an odfid whose directory workdir/odfid existed
RunExistedAtCall ==
    /\ IsRun
    /\ args.odfid = <<odfid>>
    /\ join(called_datadir, odfid) \in fs0

\* C13: run with an odfid whose directory exists and overwrite=False ends
\* with an Exception, having removed, downloaded and set nothing; a run
\* removes an existing observation directory only when overwrite=True.
C13_NoOverwriteRaises ==
    /\ (RunExistedAtCall /\ ~args.overwrite) =>
           /\ pc = "done" => outcome = "Exception"
           /\ trace = <<>>
           /\ fs = fs0
           /\ environ = environ0
    /\ (IsRun /\ "rmtree" \in Names(trace)) =>
           args.overwrite /\ RunExistedAtCall

\* the check of the existing directory raised, and with overwrite a
\* directory was removed
C13_Witness ==
    \/ /\ RunExistedAtCall /\ ~args.overwrite
       /\ ~MissingAtCall /\ args.level \in levelopts
       /\ pc = "done" /\ outcome = "Exception"
    \/ /\ RunExistedAtCall /\ args.overwrite
       /\ "rmtree" \in Names(trace)

\* run was called with sasfiles=True, no odfid, and absolute sas_ccf and
\* sas_odf, sas_odf a *SUM.SAS file whose PATH directory exists and holds a
\* MANIFEST file
ValidSasfiles ==
    /\ IsRun
    /\ args.sasfiles
    /\ Not(args.odfid)
    /\ ~MissingAtCall
    /\ AbsoluteCheck(args.sas_ccf) = "ok"
    /\ AbsoluteCheck(args.sas_odf) = "ok"
    /\ Basename(args.sas_odf) \in ContainsSumSas
    /\ IsFile(fs0, args.sas_odf)
    /\ PathLines(args.sas_odf) # <<>>
    /\ SummaryCheck(fs0, PathLines(args.sas_odf)) = "ok"

\* C14 (as claimed): such a call downloads nothing and ends with SAS_CCF
\* the given sas_ccf and SAS_ODF the given sas_odf.
C14_SasfilesSetsProducts ==
    ValidSasfiles =>
        /\ trace = <<>>
        /\ pc = "done" =>
               /\ outcome = "returned"
               /\ EnvIs(environ, "SAS_CCF", args.sas_ccf)
               /\ EnvIs(environ, "SAS_ODF", args.sas_odf)

\* run was called with sasfiles=True, no odfid, and sas_ccf or sas_odf missing
SasfilesIncomplete ==
    /\ IsRun
    /\ args.sasfiles
    /\ Not(args.odfid)
    /\ Not(args.sas_ccf) \/ Not(args.sas_odf)

\* C15 (as claimed): with sasfiles=True, run raises the Exception of its
\* input check unless both sas_ccf and sas_odf are given: a call that gives
\* at most one of them ends in that check.
C15_SasfilesNeedsBoth ==
    SasfilesIncomplete =>
        /\ pc \in {"run", "done"}
        /\ pc = "done" => outcome = "Exception"

-----------------------------------------------------------------------------
(* The decryption phase of download_data and startsas.run *)

\* the calls of ODF.setodf and of startsas.run together
InitBoth == Init \/ InitRun

NextBoth ==
    \/ Next
    \/ RunCheckArgs
    \/ RunCheckEnv
    \/ RunWorkdir
    \/ RunCheckLevel
    \/ RunDirs
    \/ RunObsDir
    \/ RunSasfiles
    \/ RunFindKey
    \/ RunAfterDownload

SpecBoth == InitBoth /\ [][NextBoth]_vars

\* the *.gpg files in the file system F
GpgFiles(F) == {q \in F : Basename(q) \in GpgNames}

\* the *.gpg file the loop is at, and its decrypted counterpart
loop_file == self.encrypted[self.i]
loop_out_file == join(Parent(loop_file), StripExt(Basename(loop_file)))

\* the files the loop has not reached yet
NotYetProcessed == {self.encrypted[k] : k \in (self.i + 1)..Len(self.encrypted)}

\* one round of the loop does what is claimed for its file
DecryptRound ==
    /\ GpgFiles(fs) \ GpgFiles(fs') \subseteq {loop_file}
    /\ NotYetProcessed \subseteq fs'
    /\ loop_file \notin fs' =>
           trace' = Append(trace, Ran("gpg", Basename(loop_file), 0))
    /\ (trace' # trace /\ trace'[Len(trace')][3] # 0) =>
           /\ pc' = "done" /\ outcome' = "Exception"
           /\ fs' = fs
    /\ loop_out_file \in fs => fs' = fs /\ trace' = trace

\* C18: in the decryption phase a *.gpg file is removed only after gpg
\* exited with 0 for it; a non-zero exit raises Exception at once, leaving
\* that file and every file not yet processed in place; a file whose
\* decrypted counterpart exists is neither decrypted nor removed.
C18_DecryptLoop == [][pc = "decrypt" => DecryptRound]_vars

\* gpg failed for a file after it had succeeded for another, and a file was
\* passed over because its decrypted counterpart was there
C18_Witness ==
    \/ /\ pc = "done" /\ outcome = "Exception"
       /\ RanFailing(trace, "gpg")
       /\ \E i \in At(trace, "gpg") : trace[i][3] = 0
    \/ /\ pc \in {"decrypt", "unpack"}
       /\ self.i >= 2
       /\ "gpg" \notin Names(trace)

-----------------------------------------------------------------------------
(* configutils.initializesas *)

pathsep == ":"

\* s.split(os.pathsep)
RECURSIVE split(_)
split(s) ==
    LET seps == {i \in 1..Len(s) : s[i] = pathsep}
    IN  IF seps = {} THEN <<s>>
        ELSE LET i == CHOOSE k \in seps : \A j \in seps : k <= j
             IN  <<SubSeq(s, 1, i - 1)>> \o split(SubSeq(s, i + 1, Len(s)))

\* os.pathsep.join(l)
RECURSIVE pathsep_join(_)
pathsep_join(l) ==
    IF Len(l) = 0 THEN <<>>
    ELSE IF Len(l) = 1 THEN l[1]
    ELSE l[1] \o <<pathsep>> \o pathsep_join(Tail(l))

Range(l) == {l[i] : i \in 1..Len(l)}

\* one round of: for value in listvalue
AddValue(E, variable, value, prepend) ==
    IF Falsy(E, variable) THEN SetEnv(E, variable, value)
    ELSE LET splitpath == split(E[variable])
             added == IF value \in Range(splitpath) THEN splitpath
                      ELSE IF prepend THEN <<value>> \o splitpath
                      ELSE Append(splitpath, value)
         IN  SetEnv(E, variable, pathsep_join(added))

RECURSIVE add_environ_variable(_, _, _, _)
add_environ_variable(E, variable, listvalue, prepend) ==
    IF listvalue = <<>> THEN E
    ELSE add_environ_variable(AddValue(E, variable, Head(listvalue), prepend),
                              variable, Tail(listvalue), prepend)

\* os.path.join(sas_dir, 'bin') and the like
binpath(sas_dir) == <<sas_dir \o <<"/bin">>, sas_dir \o <<"/bin", "/devel">>>>
libpath(sas_dir) ==
    <<sas_dir \o <<"/lib">>, sas_dir \o <<"/libextra">>, sas_dir \o <<"/libsys">>>>
perlpath(sas_dir) == <<sas_dir \o <<"/lib", "/perl5">>>>
pythonpath(sas_dir) == <<sas_dir \o <<"/lib", "/python">>>>

\* the default verbosity and suppress_warning, formatted
verbosity == <<"4">>
suppress_warning == <<"1">>

\* os.environ after the body of initializesas
Initialized(E, sas_dir, sas_ccfpath) ==
    LET e1 == add_environ_variable(E, "SAS_DIR", <<sas_dir>>, TRUE)
        e2 == add_environ_variable(e1, "SAS_CCFPATH", <<sas_ccfpath>>, TRUE)
        e3 == add_environ_variable(e2, "SAS_PATH", <<sas_dir>>, TRUE)
        e4 == add_environ_variable(e3, "SAS_PATH",
                  binpath(sas_dir) \o libpath(sas_dir) \o perlpath(sas_dir)
                      \o pythonpath(sas_dir), FALSE)
        e5 == add_environ_variable(e4, "PATH", binpath(sas_dir), TRUE)
        e6 == add_environ_variable(e5, "LIBRARY_PATH", libpath(sas_dir), FALSE)
        e7 == add_environ_variable(e6, "LD_LIBRARY_PATH", libpath(sas_dir), FALSE)
        e8 == add_environ_variable(e7, "PERL5LIB", perlpath(sas_dir), TRUE)
        e9 == add_environ_variable(e8, "PYTHONPATH", pythonpath(sas_dir), TRUE)
        e10 == IF Falsy(e9, "PERLLIB") THEN e9
               ELSE add_environ_variable(e9, "PERL5LIB", split(e9["PERLLIB"]), FALSE)
    IN  SetEnv(SetEnv(e10, "SAS_VERBOSITY", verbosity),
               "SAS_SUPPRESS_WARNING", suppress_warning)

\* Checking LHEASOFT and inputs
InputsMissing(E, sas_dir, sas_ccfpath) ==
    Falsy(E, "LHEASOFT") \/ sas_dir = None \/ sas_ccfpath = None

\* the number of calls of initializesas in a session that are explored
MaxCalls == 2

SasDirs == {None, <<"/sas1">>, <<"/sas2">>}
\* a directory, another, and a list of two directories
CcfPaths == {None, <<"/ccf1">>, <<"/ccf2">>, <<"/ccf1", ":", "/ccf2">>}

\* one call of initializesas(sas_dir, sas_ccfpath)
Initializesas ==
    /\ pc = "initializesas"
    /\ self.calls < MaxCalls
    /\ \E sas_dir \in SasDirs, sas_ccfpath \in CcfPaths :
        /\ args' = [fn |-> "initializesas", sas_dir |-> sas_dir,
                    sas_ccfpath |-> sas_ccfpath]
        /\ IF InputsMissing(environ, sas_dir, sas_ccfpath)
           THEN /\ outcome' = "Exception"
                /\ environ' = environ
           ELSE /\ outcome' = "returned"
                /\ environ' = Initialized(environ, sas_dir, sas_ccfpath)
    /\ environ0' = environ
    /\ self' = [calls |-> self.calls + 1,
                prior |-> [args |-> args, outcome |-> outcome]]
    /\ UNCHANGED <<fs, content, cwd, pc, trace, fs0>>

\* the environments a session may start from
IniEnv ==
    { [PATH |-> <<"/usr/bin">>],
      [LHEASOFT |-> set, PATH |-> <<"/usr/bin">>],
      [LHEASOFT |-> set, PATH |-> <<"/usr/bin", ":", "/bin">>, PERLLIB |-> <<"/perl">>],
      [LHEASOFT |-> set, PATH |-> <<"/usr/bin">>,
       PERLLIB |-> <<"/perl", ":", "/sas1", "/lib", "/perl5">>,
       PYTHONPATH |-> <<"/py">>],
      [LHEASOFT |-> set, PATH |-> <<"/usr/bin">>, SAS_DIR |-> <<"/sas0">>,
       SAS_CCFPATH |-> <<"/ccf0">>, LD_LIBRARY_PATH |-> <<"/usr/lib">>] }

InitIni ==
    /\ fs = Base
    /\ content = <<>>
    /\ cwd = startdir
    /\ environ \in IniEnv
    /\ args = [fn |-> "initializesas", sas_dir |-> None, sas_ccfpath |-> None]
    /\ self = [calls |-> 0, prior |-> [args |-> args, outcome |-> "running"]]
    /\ pc = "initializesas"
    /\ outcome = "running"
    /\ trace = <<>>
    /\ fs0 = fs
    /\ environ0 = environ

NextIni == Initializesas

SpecIni == InitIni /\ [][NextIni]_vars

\* C10 (as claimed): after initializesas(sas_dir, sas_ccfpath) returns,
\* SAS_DIR is sas_dir and SAS_CCFPATH is sas_ccfpath, whatever they held
\* before the call.
C10_SetsSasDirAndCcfpath ==
    (args.fn = "initializesas" /\ outcome = "returned") =>
        /\ EnvIs(environ, "SAS_DIR", args.sas_dir)
        /\ EnvIs(environ, "SAS_CCFPATH", args.sas_ccfpath)

\* the call before the last one returned and had the same arguments
CalledTwice ==
    /\ args.fn = "initializesas"
    /\ self.calls >= 2
    /\ outcome = "returned"
    /\ self.prior.outcome = "returned"
    /\ self.prior.args = args

\* C11 (as claimed): calling initializesas twice in a row with the same
\* arguments leaves every environment variable exactly as it was after the
\* first call.
C11_SecondCallChangesNothing ==
    CalledTwice => environ = environ0

-----------------------------------------------------------------------------
(* configutils: sas_cfg, set_sas_config, set_sas_config_default,
   clear_sas_defaults *)

\* the built-in defaults, as ConfigParser keeps them (strings)
sas_cfg_defaults ==
    [sas_dir |-> "/does/not/exist", sas_ccfpath |-> "/does/not/exist",
     data_dir |-> "/does/not/exist", verbosity |-> "4", suppress_warning |-> "1"]

CONFIG_DIR == <<"/", "home", ".config", "sas">>
CURRENT_CONFIG_FILE == join(CONFIG_DIR, "sas.cfg")

\* sas_cfg.get("sas", option): the value in section sas, else the default
Get(cfg, option) ==
    IF option \in DOMAIN cfg THEN cfg[option] ELSE sas_cfg_defaults[option]

\* sas_cfg.set("sas", option, value=str(value)), for a value given as a string
Set(cfg, option, value) == (option :> value) @@ cfg

\* the options and values the explored calls set
SetOptions == {"sas_dir", "data_dir", "verbosity"}
SetValues == {"a", "b"}

\* set_sas_config(option, value): the object in memory only
SetSasConfig ==
    /\ pc = "session"
    /\ \E option \in SetOptions, value \in SetValues :
        /\ args' = [fn |-> "set_sas_config", option |-> option, value |-> value]
        /\ self' = [self EXCEPT !.sas_cfg = Set(self.sas_cfg, option, value),
                                !.since = @ \cup {option}]
    /\ outcome' = "returned"
    /\ UNCHANGED <<fs, content, cwd, environ, pc, trace, fs0, environ0>>

\* set_sas_config_default(option, value): set_sas_config, then the whole of
\* sas_cfg is written to CURRENT_CONFIG_FILE
SetSasConfigDefault ==
    /\ pc = "session"
    /\ \E option \in SetOptions, value \in SetValues :
        /\ args' = [fn |-> "set_sas_config_default", option |-> option,
                    value |-> value]
        /\ self' = [self EXCEPT !.sas_cfg = Set(self.sas_cfg, option, value),
                                !.since = @ \cup {option}]
        /\ fs' = fs \cup {CURRENT_CONFIG_FILE}
        /\ content' = (CURRENT_CONFIG_FILE :> Set(self.sas_cfg, option, value))
                          @@ content
    /\ outcome' = "returned"
    /\ UNCHANGED <<cwd, environ, pc, trace, fs0, environ0>>

\* clear_sas_defaults(): os.remove(CURRENT_CONFIG_FILE)
ClearSasDefaults ==
    /\ pc = "session"
    /\ args' = [fn |-> "clear_sas_defaults", option |-> "", value |-> ""]
    /\ IF CURRENT_CONFIG_FILE \in fs
       THEN /\ fs' = fs \ {CURRENT_CONFIG_FILE}
            /\ content' = Restrict(content, fs')
            /\ outcome' = "returned"
            /\ self' = [self EXCEPT !.since = {}]
       ELSE /\ outcome' = "FileNotFoundError"
            /\ UNCHANGED <<fs, content, self>>
    /\ UNCHANGED <<cwd, environ, pc, trace, fs0, environ0>>

\* the module is imported in a new session: the config file is made when it
\* is missing, and sas_cfg is read from it
Import ==
    /\ pc = "session"
    /\ args' = [fn |-> "import", option |-> "", value |-> ""]
    /\ fs' = fs \cup {CURRENT_CONFIG_FILE}
    /\ content' = IF CURRENT_CONFIG_FILE \in fs THEN content
                  ELSE (CURRENT_CONFIG_FILE :> <<>>) @@ content
    /\ self' = [self EXCEPT !.sas_cfg = content'[CURRENT_CONFIG_FILE]]
    /\ outcome' = "returned"
    /\ UNCHANGED <<cwd, environ, pc, trace, fs0, environ0>>

\* the config files a first session may find
InitCfg == {<<>>, [sas_dir |-> "a"], [sas_dir |-> "a", data_dir |-> "b"]}

\* the state after the import of a session; since holds the options set and
\* not cleared so far
InitConfig ==
    /\ \E cfg \in InitCfg :
        /\ fs = Base \cup {CONFIG_DIR, CURRENT_CONFIG_FILE}
        /\ content = (CURRENT_CONFIG_FILE :> cfg)
        /\ self = [sas_cfg |-> cfg, since |-> DOMAIN cfg]
    /\ cwd = startdir
    /\ environ = <<>>
    /\ args = [fn |-> "import", option |-> "", value |-> ""]
    /\ pc = "session"
    /\ outcome = "returned"
    /\ trace = <<>>
    /\ fs0 = fs
    /\ environ0 = environ

NextConfig ==
    \/ SetSasConfig
    \/ SetSasConfigDefault
    \/ ClearSasDefaults
    \/ Import

SpecConfig == InitConfig /\ [][NextConfig]_vars

\* the options that were not set again after the last clear_sas_defaults
Cleared == DOMAIN sas_cfg_defaults \ self.since

\* C12 (as claimed): an option that was not set since the last
\* clear_sas_defaults shows its built-in default through sas_cfg.get, and is
\* not in the section a later set_sas_config_default writes to the config file.
C12_ClearForgetsValues ==
    \A option \in Cleared :
        /\ Get(self.sas_cfg, option) = sas_cfg_defaults[option]
        /\ CURRENT_CONFIG_FILE \in fs =>
               option \notin DOMAIN content[CURRENT_CONFIG_FILE]

-----------------------------------------------------------------------------
(* pipeline.SASpipeline.add_command *)

\* s.strip() of a string given as its words and blanks
RECURSIVE lstrip(_)
lstrip(s) == IF s # <<>> /\ Head(s) = " " THEN lstrip(Tail(s)) ELSE s

RECURSIVE rstrip(_)
rstrip(s) ==
    IF s # <<>> /\ s[Len(s)] = " " THEN rstrip(SubSeq(s, 1, Len(s) - 1)) ELSE s

strip(s) == lstrip(rstrip(s))

\* if isinstance(inargs, str): inargs = [inargs]
ListOf(inargs) == IF inargs.str THEN <<inargs.v>> ELSE inargs.v

\* glob of path/config/cmd.par over the entries of SAS_PATH
CmdFound(F, E, cmd) ==
    \E path \in Range(split(E["SAS_PATH"])) :
        path \o <<"/config", "/" \o cmd \o ".par">> \in F

\* the line add_command appends: f'{cmd} {inargs[0]}'.strip()
PipelineLine(cmd, first) == strip(<<cmd, " ">> \o first)

\* the number of lines a pipeline grows to in the explored sessions
MaxLines == 3

\* the commands and input arguments of the explored calls: no arguments, one,
\* two, as a list or as one string, and the empty string
Commands == {"evselect", "nosuchtask"}
Inargs ==
    { [str |-> FALSE, v |-> <<>>],
      [str |-> FALSE, v |-> << <<"table=t">> >>],
      [str |-> FALSE, v |-> << <<"table=t">>, <<"expression=e">> >>],
      [str |-> TRUE, v |-> <<"table=t", " ", "expression=e">>],
      [str |-> TRUE, v |-> <<>>] }

\* add_command(cmd, inargs); MyTask's readparfile and processargs accept the
\* command and arguments or raise
AddCommand ==
    /\ pc = "pipeline"
    /\ Len(self.pipeline) < MaxLines
    /\ \E cmd \in Commands, inargs \in Inargs, validates \in BOOLEAN :
        /\ args' = [fn |-> "add_command", cmd |-> cmd, inargs |-> inargs,
                    validates |-> validates]
        /\ IF ~validates
           THEN /\ outcome' = "Exception"
                /\ self' = [self EXCEPT !.before = self.pipeline]
           ELSE IF "SAS_PATH" \notin DOMAIN environ
           THEN /\ outcome' = "KeyError"
                /\ self' = [self EXCEPT !.before = self.pipeline]
           ELSE IF ~CmdFound(fs, environ, cmd)
           THEN /\ outcome' = "Exception"
                /\ self' = [self EXCEPT !.before = self.pipeline]
           ELSE IF ListOf(inargs) = <<>>
           THEN /\ outcome' = "IndexError"
                /\ self' = [self EXCEPT !.before = self.pipeline]
           ELSE /\ outcome' = "returned"
                /\ self' = [pipeline |-> Append(self.pipeline,
                                PipelineLine(cmd, ListOf(inargs)[1])),
                            before |-> self.pipeline]
    /\ UNCHANGED <<fs, content, cwd, environ, pc, trace, fs0, environ0>>

\* a SAS installation with the parameter file of evselect
SasConfig == {<<"/sas1">>, <<"/sas1", "/config">>,
              <<"/sas1", "/config", "/evselect.par">>}

\* the pipeline of a new SASpipeline: empty, or the lines of a pipeline file
InitPipeline == {<<>>, << <<"#", " ", "default">> >>}

InitPipe ==
    /\ fs = SasConfig
    /\ content = <<>>
    /\ cwd = startdir
    /\ environ \in { [LHEASOFT |-> set],
                     [LHEASOFT |-> set, SAS_PATH |-> <<"/sas1">>],
                     [LHEASOFT |-> set,
                      SAS_PATH |-> <<"/other", ":", "/sas1", ":", "/sas1", "/bin">>] }
    /\ \E p \in InitPipeline : self = [pipeline |-> p, before |-> p]
    /\ args = [fn |-> "SASpipeline", cmd |-> "", inargs |-> [str |-> TRUE, v |-> <<>>],
               validates |-> FALSE]
    /\ pc = "pipeline"
    /\ outcome = "returned"
    /\ trace = <<>>
    /\ fs0 = fs
    /\ environ0 = environ

NextPipe == AddCommand

SpecPipe == InitPipe /\ [][NextPipe]_vars

\* cmd followed by all the given input arguments
RECURSIVE WithAll(_, _)
WithAll(line, l) ==
    IF l = <<>> THEN line ELSE WithAll(line \o <<" ">> \o Head(l), Tail(l))

\* the command exists and validates
ValidCommand ==
    /\ args.fn = "add_command"
    /\ args.validates
    /\ "SAS_PATH" \in DOMAIN environ
    /\ CmdFound(fs, environ, args.cmd)

\* C16 (as claimed): for a command that exists and validates, add_command
\* returns having appended one line and changed no other: cmd alone when
\* inargs is left blank, cmd followed by all the given arguments otherwise.
C16_AddCommandAppendsLine ==
    ValidCommand =>
        /\ outcome = "returned"
        /\ self.pipeline =
               Append(self.before, strip(WithAll(<<args.cmd>>, ListOf(args.inargs))))

====
